---- MODULE Spec2Model ----
(***************************************************************************)
(* Role reconciliation bot (auto-role-discord).                            *)
(*                                                                         *)
(* Two variants of the RoleScheduler cog live in the repository:           *)
(*   src/cogs/role_scheduler.py  the cog main.py loads (verification gate, *)
(*                               sibling lookup, deferred retry pass, one  *)
(*                               semaphore), modelled by Spec;             *)
(*   src/role_scheduler.py       the variant with the level cache, two     *)
(*                               semaphores and mutation retries, modelled *)
(*                               by SpecRoot.                              *)
(* Tasks are asyncio coroutines: one action is one stretch of a coroutine  *)
(* between two suspension points (an HTTP answer, a role call's answer, a  *)
(* semaphore acquisition, the completion of a gather).                     *)
(***************************************************************************)
EXTENDS Integers, Sequences, FiniteSets, TLC

\* ------------------------------------------------------------- bounds
\* Two families of behaviours are explored: one scheduled invocation of the
\* reconciliation over a guild of NumMembers members (RootMembers for
\* src/role_scheduler.py), and MaxRuns invocations (which may overlap) over
\* a guild of OverlapMembers members.
NumMembers == 3
RootMembers == 2
OverlapMembers == 1
MaxRuns == 2
\* The program's sizes, scaled down: members per chunk, slots of the
\* semaphore, attempts of a retry loop.
ChunkBound == 2
RootChunkBound == 1
RoleSlotsBound == 2
ApiSlotsBound == 1
AttemptBound == 2
RetryBound == 2
\* The cache's time to live, in ticks of the clock, and the last tick.
TtlBound == 2
MaxTime == 2

\* ------------------------------------------------- program constants
max_attempts == AttemptBound
max_retries == RetryBound
cache_ttl == TtlBound
MIN_ITEM_LEVEL == 1720
JOIN_THRESHOLD == 2024

Runs == 1..MaxRuns

\* member.joined_at, as the year whose first instant it is
JoinDates == {2023, 2024}

\* ------------------------------------------------ level field parsing
Digits == {"0", "1", "2", "3", "4", "5", "6", "7", "8", "9"}

DigitVal(c) ==
    CASE c = "0" -> 0 [] c = "1" -> 1 [] c = "2" -> 2 [] c = "3" -> 3
      [] c = "4" -> 4 [] c = "5" -> 5 [] c = "6" -> 6 [] c = "7" -> 7
      [] c = "8" -> 8 [] c = "9" -> 9

\* raw.replace(",", "")
StripCommas(s) == SelectSeq(s, LAMBDA c : c # ",")

RECURSIVE DigitsValue(_)
DigitsValue(s) ==
    IF s = <<>> THEN 0
    ELSE 10 * DigitsValue(SubSeq(s, 1, Len(s) - 1)) + DigitVal(s[Len(s)])

DotPositions(s) == {i \in 1..Len(s) : s[i] = "."}

\* float(text): the value in hundredths, or -1 for ValueError.  The texts
\* are decimal numerals with at most two decimals.
ParseFloat(s) ==
    LET dots == DotPositions(s)
        dot == IF dots = {} THEN Len(s) + 1 ELSE CHOOSE i \in dots : TRUE
        ip == SubSeq(s, 1, dot - 1)
        fp == SubSeq(s, dot + 1, Len(s))
        fp2 == SubSeq(fp \o <<"0", "0">>, 1, 2)
    IN  IF /\ \A i \in 1..Len(s) : s[i] \in Digits \cup {"."}
           /\ Cardinality(dots) <= 1
           /\ Len(ip) + Len(fp) >= 1
        THEN 100 * DigitsValue(ip) + DigitsValue(fp2)
        ELSE -1

\* float(raw.replace(",", ""))
ParseLevel(raw) == ParseFloat(StripCommas(raw))

\* the level texts the external service is taken to answer with
LevelTexts ==
    { <<"1", ",", "7", "2", "0", ".", "0", "0">>,
      <<"1", ",", "6", "0", "0", ".", "0", "0">>,
      <<"x">>,
      <<>> }

\* a JSON field: absent (None) or a text
Fields == [has : {FALSE}, val : {<<>>}] \cup [has : {TRUE}, val : LevelTexts]

\* Python truthiness of entry.get(key)
Truthy(f) == f.has /\ f.val # <<>>

Records == [ItemMaxLevel : Fields, ItemAvgLevel : Fields]

\* ------------------------------------------- answers of the services
MaxRecords == 2

None == [tag |-> "none", lvl |-> 0]
Level(v) == [tag |-> "level", lvl |-> v]
Raise == [tag |-> "raise", lvl |-> 0]
Fallback == [tag |-> "fallback", lvl |-> 0]

\* what session.get answers to one attempt: a 200 with a JSON body, a 429,
\* a 204 (a 2xx that is not 200), another status, or an exception (transport
\* error, closed session)
Answers == {"ok", "429", "204", "other", "exc"}

\* the body of the multi-character endpoint
SiblingsPayloads ==
    [kind : {"other"}, recs : {<<>>}]
      \cup [kind : {"list"},
            recs : UNION {[1..n -> Records] : n \in 0..MaxRecords}]

\* the body of the single-character endpoint
ProfilePayloads ==
    [kind : {"other"}, rec : {[ItemMaxLevel |-> [has |-> FALSE, val |-> <<>>],
                               ItemAvgLevel |-> [has |-> FALSE, val |-> <<>>]]}]
      \cup [kind : {"dict"}, rec : Records]

\* what add_roles / remove_roles answer
MutationAnswers == {"ok", "429", "Forbidden", "HTTPException"}

\* ---------------------------------------------------- fetch_with_retry
\* a retry loop that goes on after any answer that is not a 200
fetch_with_retry_any(ans, attempt) ==
    CASE ans = "ok" -> "data"
      [] OTHER -> IF attempt < max_attempts THEN "again" ELSE "none"

\* one turn of the retry loop: the data, one more attempt, or None
fetch_with_retry(ans, attempt) ==
    CASE ans = "ok" -> "data"
      [] ans \in {"429", "exc"} ->
            IF attempt < max_attempts THEN "again" ELSE "none"
      [] ans \in {"204", "other"} -> "none"

\* fetch_item_level: the single-character endpoint's body to a level
fetch_item_level(data) ==
    IF data.kind # "dict" THEN None
    ELSE LET raw == data.rec.ItemAvgLevel
         IN  IF ~Truthy(raw) THEN None
             ELSE IF ParseLevel(raw.val) < 0 THEN None
             ELSE Level(ParseLevel(raw.val))

\* the loop of fetch_max_siblings_item_level over the records from i on
RECURSIVE SiblingsLoop(_, _, _)
SiblingsLoop(recs, i, max_level) ==
    IF i > Len(recs) THEN max_level
    ELSE LET entry == recs[i]
             raw == IF Truthy(entry.ItemMaxLevel) THEN entry.ItemMaxLevel
                    ELSE entry.ItemAvgLevel
         IN  IF ~Truthy(raw) THEN SiblingsLoop(recs, i + 1, max_level)
             ELSE IF ParseLevel(raw.val) < 0 THEN Raise
             ELSE LET lvl == ParseLevel(raw.val)
                  IN  SiblingsLoop(recs, i + 1,
                        IF max_level.tag = "none" \/ lvl > max_level.lvl
                        THEN Level(lvl) ELSE max_level)

\* fetch_max_siblings_item_level: the multi-character endpoint's body to a
\* level, None, an escaping ValueError, or the fallback to fetch_item_level
fetch_max_siblings_item_level(data) ==
    IF data.kind # "list" \/ Len(data.recs) = 0 THEN Fallback
    ELSE SiblingsLoop(data.recs, 1, None)

SiblingsOutcomes == {fetch_max_siblings_item_level(d) : d \in SiblingsPayloads}
ProfileOutcomes == {fetch_item_level(d) : d \in ProfilePayloads}

\* src/role_scheduler.py, lines 69-111: one turn of fetch_item_level's retry loop
root_retry(ans, attempt) ==
    CASE ans = "ok" -> "data"
      [] ans \in {"429", "exc"} ->
            IF attempt < max_retries THEN "again" ELSE "none"
      [] ans \in {"204", "other"} -> "none"

\* src/role_scheduler.py, lines 75-97: the body of a 200 answer to a level
root_fetch_item_level(data) ==
    IF data.kind # "dict" THEN None
    ELSE LET lvl_str == IF Truthy(data.rec.ItemMaxLevel)
                        THEN data.rec.ItemMaxLevel
                        ELSE data.rec.ItemAvgLevel
         IN  IF ~Truthy(lvl_str) THEN None
             ELSE IF ParseLevel(lvl_str.val) < 0 THEN None
             ELSE Level(ParseLevel(lvl_str.val))

RootOutcomes == {root_fetch_item_level(d) : d \in ProfilePayloads}

\* ---------------------------------------------------------------- state
VARIABLES
    extension,       \* the cog in use: "cogs" (src/cogs/role_scheduler.py)
                     \* or "root" (src/role_scheduler.py)
    members,         \* guild.members, in directory order
    verified,        \* member -> the verification role is in member.roles
    joined_at,       \* member -> member.joined_at
    roles,           \* member -> the target role is in member.roles
    invocations,     \* kind -> the firings of the cron trigger ("sched") and
                     \* the sync_roles commands ("cmd") still to come
    run,             \* run -> the check_all_members coroutine's frame
    task,            \* run -> member -> the member coroutine's frame
    role_semaphore,  \* self.role_semaphore: the free slots
    api_semaphore,   \* self.api_semaphore (root): the free slots
    cache,           \* self.cache (root): name -> (level, timestamp)
    now,             \* time.time()
    service          \* what the level service and Discord may answer

vars == <<extension, members, verified, joined_at, roles, invocations, run,
          task, role_semaphore, api_semaphore, cache, now, service>>

rootvars == <<api_semaphore, cache, now>>

directory == <<extension, members, verified, joined_at, service>>

Range(seq) == {seq[i] : i \in 1..Len(seq)}

Members == Range(members)

\* the frame of a member coroutine; reqs, clean, lookup, mutation, answer
\* (the answer to the role call), evals and deferrals record what the
\* coroutine has done; item_level is the level the lookup returned, in
\* hundredths, -1 for None
NoTask ==
    [pc |-> "none", is_retry |-> FALSE, has_role |-> FALSE,
     should_have_role |-> FALSE, reason |-> "None", attempt |-> 0,
     result |-> "none", reqs |-> 0, clean |-> TRUE, lookup |-> "none",
     mutation |-> "none", answer |-> "none", now |-> 0, evals |-> 0,
     deferrals |-> 0, item_level |-> -1]

NoRun ==
    [phase |-> "idle", kind |-> "none", chunk |-> 0, failed_members |-> <<>>,
     added |-> 0, removed |-> 0, skipped |-> 0]

Guilds ==
    {[i \in 1..n |-> i] :
        n \in {OverlapMembers,
                IF extension = "cogs" THEN NumMembers ELSE RootMembers}}

InitDirectory ==
    /\ members \in Guilds
    /\ verified \in [Range(members) -> BOOLEAN]
    /\ joined_at \in [Range(members) -> JoinDates]
    /\ roles \in [Range(members) -> BOOLEAN]
    /\ invocations \in
         IF Len(members) <= OverlapMembers
         THEN {[sched |-> a, cmd |-> MaxRuns - a] : a \in 0..MaxRuns}
         ELSE {[sched |-> 1, cmd |-> 0]}
    /\ run = [r \in Runs |-> NoRun]
    /\ task = [r \in Runs |-> [m \in Range(members) |-> NoTask]]

NoEntry == [has |-> FALSE, lvl |-> 0, ts |-> 0]

\* services that may answer anything at any time: the answers to a GET, the
\* answers to a role call, and per member what a 200 of either endpoint
\* yields
AnyService ==
    [lookup |-> Answers, mutation |-> MutationAnswers,
     sib |-> [m \in Range(members) |-> SiblingsOutcomes],
     single |-> [m \in Range(members) |-> ProfileOutcomes \cup RootOutcomes]]

Init ==
    /\ extension \in {"cogs", "root"}
    /\ InitDirectory
    /\ role_semaphore = RoleSlotsBound
    /\ api_semaphore = ApiSlotsBound
    /\ cache = [m \in Range(members) |-> NoEntry]
    /\ now = 0
    /\ service = AnyService

\* self.chunk_size
chunk_size == IF extension = "root" THEN RootChunkBound ELSE ChunkBound

\* chunks = [members[i:i+chunk_size] for i in range(0, len(members), chunk_size)]
NumChunks == (Len(members) + chunk_size - 1) \div chunk_size

Chunk(c) ==
    SubSeq(members, c * chunk_size + 1,
           IF (c + 1) * chunk_size < Len(members) THEN (c + 1) * chunk_size
           ELSE Len(members))

Running(r) == run[r].phase \in {"chunk", "deferred"}

\* the members whose coroutines the run's pending gather awaits
Gathered(r) ==
    CASE run[r].phase = "chunk" -> Range(Chunk(run[r].chunk))
      [] run[r].phase = "deferred" -> Range(run[r].failed_members)
      [] OTHER -> {}

\* a frame nothing refers to any more: only the record of the run is kept
Gone(t) == [NoTask EXCEPT !.evals = t.evals, !.deferrals = t.deferrals]

\* the frame of a coroutine gather has just wrapped in a task
NewTask(old, retry) == [Gone(old) EXCEPT !.pc = "new", !.is_retry = retry]

\* the aiohttp session of the run is closed once check_all_members has left
\* its "async with": every later session.get raises
SessionClosed(r) == ~Running(r)

\* a semaphore that admits every caller
AcquirableAlways(sem) == TRUE

\* asyncio.Semaphore.acquire does not block
Acquirable(sem) == sem > 0

\* ------------------------------------------------------ evaluate_member
\* the coroutine ends; of its request count the record keeps that of a
\* lookup whose every attempt failed
Return(t, result) ==
    [t EXCEPT !.pc = "done", !.result = result, !.attempt = 0,
              !.reqs = IF t.clean THEN t.reqs ELSE 0]

\* a role call whenever the member should have the role, held or not
MutateUnread(t) ==
    IF t.should_have_role
    THEN [t EXCEPT !.pc = "add", !.mutation = "add"]
    ELSE IF t.has_role
    THEN [t EXCEPT !.pc = "remove", !.mutation = "remove"]
    ELSE Return(t, "skipped")

\* lines 176-194: the role call to issue, if any
Mutate(t) ==
    IF t.should_have_role /\ ~t.has_role
    THEN [t EXCEPT !.pc = "add", !.mutation = "add"]
    ELSE IF ~t.should_have_role /\ t.has_role
    THEN [t EXCEPT !.pc = "remove", !.mutation = "remove"]
    ELSE Return(t, "skipped")

\* session.get is called once more
Request(t, pc, attempt) ==
    [t EXCEPT !.pc = pc, !.attempt = attempt, !.reqs = t.reqs + 1,
              !.lookup = "pending"]

\* lines 137-164: from the semaphore to the first suspension point
Enter(t, has_role, has_verify_role, joined) ==
    LET t1 == [t EXCEPT !.has_role = has_role, !.evals = t.evals + 1]
    IN  IF ~has_verify_role
        THEN IF has_role
             THEN [t1 EXCEPT !.pc = "remove", !.mutation = "remove"]
             ELSE Return(t1, "skipped")
        ELSE IF joined < JOIN_THRESHOLD
        THEN Mutate([t1 EXCEPT !.should_have_role = TRUE, !.reason = "join"])
        ELSE Request(t1, "sib", 1)

\* lines 165-174: what evaluate_member does with the lookup's outcome
LookupReturn(t, out) ==
    CASE out.tag = "raise" -> Return([t EXCEPT !.lookup = "raise"], "raised")
      [] out.tag = "none" ->
            Return([t EXCEPT !.lookup = "fail",
                             !.deferrals = IF t.is_retry THEN t.deferrals
                                           ELSE t.deferrals + 1],
                   "skipped")
      [] out.tag = "level" ->
            Mutate([t EXCEPT !.lookup = "ok", !.reason = "item",
                             !.item_level = out.lvl,
                             !.should_have_role =
                                 (out.lvl >= MIN_ITEM_LEVEL * 100)])

\* lines 146-153 and 177-194: the answer to add_roles / remove_roles
MutationReturn(t, ans) ==
    LET t1 == [t EXCEPT !.answer = ans]
    IN  CASE ans = "ok" ->
               Return(t1, IF t.pc = "add" THEN "added" ELSE "removed")
          [] ans = "Forbidden" -> Return(t1, "skipped")
          [] ans \in {"429", "HTTPException"} -> Return(t1, "raised")

\* an answer that is not a retryable failure ends the run of failures
Answered(t, ans) == [t EXCEPT !.clean = t.clean /\ ans \in {"429", "exc"}]

\* the frame moves from t to nt: the semaphore is taken on entry and given
\* back on every way out of the "async with"; a deferral appends the member
\* to the run's failed_members; the frame of a coroutine that nothing awaits
\* any more is dropped when it ends
Step(r, m, nt) ==
    LET t == task[r][m]
    IN  /\ task' = [task EXCEPT ![r][m] =
                      IF nt.pc = "done" /\ ~Running(r) THEN Gone(nt) ELSE nt]
        /\ role_semaphore' = role_semaphore
                               - (IF t.pc = "new" THEN 1 ELSE 0)
                               + (IF nt.pc = "done" THEN 1 ELSE 0)
        /\ run' = IF nt.deferrals > t.deferrals
                  THEN [run EXCEPT ![r].failed_members = Append(@, m)]
                  ELSE run

EvaluateMember(r, m) ==
    /\ extension = "cogs"
    /\ task[r][m].pc = "new"
    /\ Acquirable(role_semaphore)
    /\ Step(r, m, Enter(task[r][m], roles[m], verified[m], joined_at[m]))
    /\ UNCHANGED <<directory, roles, invocations, rootvars>>

SiblingsAnswer(r, m) ==
    /\ extension = "cogs"
    /\ task[r][m].pc = "sib"
    /\ \E ans \in Answers :
         /\ SessionClosed(r) => ans = "exc"
         /\ ~SessionClosed(r) => ans \in service.lookup
         /\ LET t == Answered(task[r][m], ans)
                next == fetch_with_retry(ans, t.attempt)
            IN  CASE next = "again" ->
                       Step(r, m, Request(t, "sib", t.attempt + 1))
                  [] next = "none" -> Step(r, m, Request(t, "single", 1))
                  [] next = "data" ->
                       \E out \in service.sib[m] :
                          IF out.tag = "fallback"
                          THEN Step(r, m, Request(t, "single", 1))
                          ELSE Step(r, m, LookupReturn(t, out))
    /\ UNCHANGED <<directory, roles, invocations, rootvars>>

ProfileAnswer(r, m) ==
    /\ extension = "cogs"
    /\ task[r][m].pc = "single"
    /\ \E ans \in Answers :
         /\ SessionClosed(r) => ans = "exc"
         /\ ~SessionClosed(r) => ans \in service.lookup
         /\ LET t == Answered(task[r][m], ans)
                next == fetch_with_retry(ans, t.attempt)
            IN  CASE next = "again" ->
                       Step(r, m, Request(t, "single", t.attempt + 1))
                  [] next = "none" -> Step(r, m, LookupReturn(t, None))
                  [] next = "data" ->
                       \E out \in service.single[m] \cap ProfileOutcomes :
                          Step(r, m, LookupReturn(t, out))
    /\ UNCHANGED <<directory, roles, invocations, rootvars>>

MutationAnswer(r, m) ==
    /\ extension = "cogs"
    /\ task[r][m].pc \in {"add", "remove"}
    /\ \E ans \in service.mutation :
         /\ Step(r, m, MutationReturn(task[r][m], ans))
         /\ roles' = IF ans = "ok"
                     THEN [roles EXCEPT ![m] = (task[r][m].pc = "add")]
                     ELSE roles
    /\ UNCHANGED <<directory, invocations, rootvars>>

\* ---------------------------------------------------- check_all_members
Count(r, S, result) == Cardinality({m \in S : task[r][m].result = result})

\* lines 100-106 and 117-123
Tally(fr, r, S) ==
    [fr EXCEPT !.added = @ + Count(r, S, "added"),
               !.removed = @ + Count(r, S, "removed"),
               !.skipped = @ + Count(r, S, "skipped")]

\* the coroutines of S are wrapped in tasks; the frames gather has read are
\* dropped
Spawn(r, S, retry) ==
    [task EXCEPT ![r] = [m \in Members |->
        IF m \in S THEN NewTask(task[r][m], retry)
        ELSE IF task[r][m].pc = "done" THEN Gone(task[r][m])
        ELSE task[r][m]]]

\* the scheduler's job runs with max_instances=1: no second instance of it
\* starts while one runs; the sync_roles command is not the job
MayStart(kind) ==
    kind = "sched" => \A q \in Runs : ~(Running(q) /\ run[q].kind = "sched")

\* lines 70-97: the job of the scheduler (kind "sched") or the sync_roles
\* command (kind "cmd") enters check_all_members
Start(r, kind) ==
    /\ invocations[kind] > 0
    /\ run[r].phase = "idle"
    /\ \A q \in Runs : q < r => run[q].phase # "idle"
    /\ MayStart(kind)
    /\ invocations' = [invocations EXCEPT ![kind] = @ - 1]
    /\ \E cfg \in {"ok", "no_guild", "no_role", "no_verify_role"} :
         CASE cfg = "no_guild" ->
                \* guild.roles of None: AttributeError at line 76
                /\ run' = [run EXCEPT ![r].phase = "crashed", ![r].kind = kind]
                /\ UNCHANGED task
           [] cfg \in {"no_role", "no_verify_role"} ->
                /\ run' = [run EXCEPT ![r].phase = "config_abort",
                                      ![r].kind = kind]
                /\ UNCHANGED task
           [] cfg = "ok" ->
                /\ run' = [run EXCEPT ![r].phase = "chunk", ![r].kind = kind]
                /\ task' = Spawn(r, Range(Chunk(0)), FALSE)
    /\ UNCHANGED <<directory, roles, role_semaphore, rootvars>>

ScheduledJob(r) == extension = "cogs" /\ Start(r, "sched")

\* the trigger fires while an instance of the job runs: the firing is dropped
JobSkipped ==
    /\ invocations["sched"] > 0
    /\ ~MayStart("sched")
    /\ invocations' = [invocations EXCEPT !["sched"] = @ - 1]
    /\ UNCHANGED <<directory, roles, run, task, role_semaphore, rootvars>>

sync_roles(r) == extension = "cogs" /\ Start(r, "cmd")

\* gather returns as soon as one result is there
GatherReturnEarly(r) ==
    /\ extension = "cogs"
    /\ Running(r)
    /\ \E m \in Gathered(r) :
         task[r][m].pc = "done" /\ task[r][m].result # "raised"
    /\ LET fr == Tally(run[r], r, Gathered(r))
       IN  IF fr.phase = "chunk" /\ fr.chunk + 1 < NumChunks
           THEN /\ run' = [run EXCEPT ![r] = [fr EXCEPT !.chunk = @ + 1]]
                /\ task' = Spawn(r, Range(Chunk(fr.chunk + 1)), FALSE)
           ELSE IF fr.phase = "chunk" /\ fr.failed_members # <<>>
           THEN /\ run' = [run EXCEPT ![r] = [fr EXCEPT !.phase = "deferred"]]
                /\ task' = Spawn(r, Range(fr.failed_members), TRUE)
           ELSE /\ run' = [run EXCEPT ![r] = [fr EXCEPT !.phase = "done"]]
                /\ task' = Spawn(r, {}, FALSE)
    /\ UNCHANGED <<directory, roles, invocations, role_semaphore, rootvars>>

\* lines 99-123: gather has every result
GatherReturn(r) ==
    /\ extension = "cogs"
    /\ Running(r)
    /\ \A m \in Gathered(r) :
         task[r][m].pc = "done" /\ task[r][m].result # "raised"
    /\ LET fr == Tally(run[r], r, Gathered(r))
       IN  IF fr.phase = "chunk" /\ fr.chunk + 1 < NumChunks
           THEN /\ run' = [run EXCEPT ![r] = [fr EXCEPT !.chunk = @ + 1]]
                /\ task' = Spawn(r, Range(Chunk(fr.chunk + 1)), FALSE)
           ELSE IF fr.phase = "chunk" /\ fr.failed_members # <<>>
           THEN /\ run' = [run EXCEPT ![r] = [fr EXCEPT !.phase = "deferred"]]
                /\ task' = Spawn(r, Range(fr.failed_members), TRUE)
           ELSE /\ run' = [run EXCEPT ![r] = [fr EXCEPT !.phase = "done"]]
                /\ task' = Spawn(r, {}, FALSE)
    /\ UNCHANGED <<directory, roles, invocations, role_semaphore, rootvars>>

\* gather without return_exceptions: the first exception of a member's
\* coroutine leaves check_all_members; the other coroutines run on
GatherRaise(r) ==
    /\ extension = "cogs"
    /\ Running(r)
    /\ \E m \in Gathered(r) :
         task[r][m].pc = "done" /\ task[r][m].result = "raised"
    /\ run' = [run EXCEPT ![r].phase = "raised"]
    /\ task' = Spawn(r, {}, FALSE)
    /\ UNCHANGED <<directory, roles, invocations, role_semaphore, rootvars>>

\* ====================================================================
\* src/role_scheduler.py: the variant with the cache and two semaphores
\* ====================================================================

\* lines 53-57: the cache entry is there and fresh
Fresh(entry, time) == entry.has /\ time - entry.ts < cache_ttl

\* line 96: self.cache[character_name] = (lvl, now)
Store(lvl, time) == [has |-> TRUE, lvl |-> lvl, ts |-> time]

\* lines 120-161: _process_member once fetch_item_level has returned; an
\* add or remove call waits for the role semaphore first
RootDecide(t, out, has_role, joined) ==
    LET joined_ok == joined < JOIN_THRESHOLD
        gear_ok == out.tag = "level" /\ out.lvl # 0
                     /\ out.lvl >= MIN_ITEM_LEVEL * 100
        excellent_ok == joined_ok \/ gear_ok
        t1 == [t EXCEPT !.has_role = has_role,
                        !.item_level = IF out.tag = "level" THEN out.lvl
                                       ELSE -1,
                        !.should_have_role = excellent_ok]
    IN  IF excellent_ok /\ ~has_role
        THEN [t1 EXCEPT !.pc = "role_wait", !.mutation = "add"]
        ELSE IF ~excellent_ok /\ has_role
        THEN [t1 EXCEPT !.pc = "role_wait", !.mutation = "remove"]
        ELSE Return(t1, "skipped")

\* lines 128-141 and 146-159: the answer to add_roles / remove_roles; the
\* handler of a 429 reads backoff_base, which _process_member never binds:
\* NameError
RootMutationReturn(t, ans) ==
    LET t1 == [t EXCEPT !.answer = ans]
    IN  CASE ans = "ok" ->
               Return(t1, IF t.pc = "add" THEN "added" ELSE "removed")
          [] ans = "429" -> Return(t1, "raised")
          [] ans \in {"Forbidden", "HTTPException"} -> Return(t1, "skipped")

\* the frame moves from t to nt; each semaphore is held inside its own
\* "async with" only
RootStep(r, m, nt) ==
    LET t == task[r][m]
    IN  /\ task' = [task EXCEPT ![r][m] =
                      IF nt.pc = "done" /\ ~Running(r) THEN Gone(nt) ELSE nt]
        /\ api_semaphore' = api_semaphore
              - (IF t.pc = "api_wait" /\ nt.pc = "get" THEN 1 ELSE 0)
              + (IF t.pc = "get" /\ nt.pc # "get" THEN 1 ELSE 0)
        /\ role_semaphore' = role_semaphore
              - (IF t.pc = "role_wait" /\ nt.pc \in {"add", "remove"}
                 THEN 1 ELSE 0)
              + (IF t.pc \in {"add", "remove"} /\ nt.pc = "done"
                 THEN 1 ELSE 0)

\* lines 114-121 and 51-57: _process_member up to the cache check
RootProcessMember(r, m) ==
    /\ extension = "root"
    /\ task[r][m].pc = "new"
    /\ LET t == [task[r][m] EXCEPT !.evals = @ + 1, !.now = now]
       IN  IF Fresh(cache[m], now)
           THEN RootStep(r, m, RootDecide([t EXCEPT !.lookup = "cached"],
                                          Level(cache[m].lvl), roles[m],
                                          joined_at[m]))
           ELSE RootStep(r, m, [t EXCEPT !.pc = "api_wait"])
    /\ UNCHANGED <<directory, roles, invocations, run, cache, now>>

\* line 68: async with self.api_semaphore
RootAcquireApi(r, m) ==
    /\ extension = "root"
    /\ task[r][m].pc = "api_wait"
    /\ Acquirable(api_semaphore)
    /\ RootStep(r, m, Request(task[r][m], "get", 1))
    /\ UNCHANGED <<directory, roles, invocations, run, cache, now>>

\* lines 72-111: the answer to session.get
RootFetchAnswer(r, m) ==
    /\ extension = "root"
    /\ task[r][m].pc = "get"
    /\ \E ans \in service.lookup :
         LET t == Answered(task[r][m], ans)
             next == root_retry(ans, t.attempt)
         IN  CASE next = "again" ->
                    /\ RootStep(r, m, Request(t, "get", t.attempt + 1))
                    /\ UNCHANGED cache
               [] next = "none" ->
                    /\ RootStep(r, m, RootDecide([t EXCEPT !.lookup = "fail"],
                                                 None, roles[m], joined_at[m]))
                    /\ UNCHANGED cache
               [] next = "data" ->
                    \E out \in service.single[m] \cap RootOutcomes :
                       IF out.tag = "level"
                       THEN /\ cache' = [cache EXCEPT ![m] = Store(out.lvl, t.now)]
                            /\ RootStep(r, m,
                                 RootDecide([t EXCEPT !.lookup = "ok"], out,
                                            roles[m], joined_at[m]))
                       ELSE /\ RootStep(r, m,
                                 RootDecide([t EXCEPT !.lookup = "fail"], out,
                                            roles[m], joined_at[m]))
                            /\ UNCHANGED cache
    /\ UNCHANGED <<directory, roles, invocations, run, now>>

\* lines 129 and 147: async with self.role_semaphore
RootAcquireRole(r, m) ==
    /\ extension = "root"
    /\ task[r][m].pc = "role_wait"
    /\ Acquirable(role_semaphore)
    /\ RootStep(r, m, [task[r][m] EXCEPT !.pc = task[r][m].mutation])
    /\ UNCHANGED <<directory, roles, invocations, run, cache, now>>

RootMutationAnswer(r, m) ==
    /\ extension = "root"
    /\ task[r][m].pc \in {"add", "remove"}
    /\ \E ans \in service.mutation :
         /\ RootStep(r, m, RootMutationReturn(task[r][m], ans))
         /\ roles' = IF ans = "ok"
                     THEN [roles EXCEPT ![m] = (task[r][m].pc = "add")]
                     ELSE roles
    /\ UNCHANGED <<directory, invocations, run, cache, now>>

\* lines 163-179 (the job, kind "sched") and 181-203 (the sync_roles
\* command, kind "cmd"): up to the first gather
RootStart(r, kind) ==
    /\ invocations[kind] > 0
    /\ run[r].phase = "idle"
    /\ \A q \in Runs : q < r => run[q].phase # "idle"
    /\ MayStart(kind)
    /\ invocations' = [invocations EXCEPT ![kind] = @ - 1]
    /\ \E cfg \in {"ok", "no_role"} :
         IF cfg = "no_role"
         THEN /\ run' = [run EXCEPT ![r].phase = "config_abort",
                                    ![r].kind = kind]
              /\ UNCHANGED task
         ELSE /\ run' = [run EXCEPT ![r].phase = "chunk", ![r].kind = kind]
              /\ task' = Spawn(r, Range(Chunk(0)), FALSE)
    /\ UNCHANGED <<directory, roles, role_semaphore, rootvars>>

RootScheduledJob(r) == extension = "root" /\ RootStart(r, "sched")

root_sync_roles(r) == extension = "root" /\ RootStart(r, "cmd")

\* lines 177-179 and 197-202: gather has every result; sync_roles sums them
RootGatherReturn(r) ==
    /\ extension = "root"
    /\ Running(r)
    /\ \A m \in Gathered(r) :
         task[r][m].pc = "done" /\ task[r][m].result # "raised"
    /\ LET fr == IF run[r].kind = "cmd"
                 THEN [run[r] EXCEPT
                         !.added = @ + Count(r, Gathered(r), "added"),
                         !.removed = @ + Count(r, Gathered(r), "removed")]
                 ELSE run[r]
       IN  IF fr.chunk + 1 < NumChunks
           THEN /\ run' = [run EXCEPT ![r] = [fr EXCEPT !.chunk = @ + 1]]
                /\ task' = Spawn(r, Range(Chunk(fr.chunk + 1)), FALSE)
           ELSE /\ run' = [run EXCEPT ![r] = [fr EXCEPT !.phase = "done"]]
                /\ task' = Spawn(r, {}, FALSE)
    /\ UNCHANGED <<directory, roles, invocations, role_semaphore, rootvars>>

RootGatherRaise(r) ==
    /\ extension = "root"
    /\ Running(r)
    /\ \E m \in Gathered(r) :
         task[r][m].pc = "done" /\ task[r][m].result = "raised"
    /\ run' = [run EXCEPT ![r].phase = "raised"]
    /\ task' = Spawn(r, {}, FALSE)
    /\ UNCHANGED <<directory, roles, invocations, role_semaphore, rootvars>>

\* the clock advances
Tick ==
    /\ extension = "root"
    /\ now < MaxTime
    /\ now' = now + 1
    /\ UNCHANGED <<directory, roles, invocations, run, task, role_semaphore,
                   api_semaphore, cache>>

Next ==
    \/ \E r \in Runs : ScheduledJob(r)
    \/ JobSkipped
    \/ \E r \in Runs : sync_roles(r)
    \/ \E r \in Runs : GatherReturn(r)
    \/ \E r \in Runs : GatherRaise(r)
    \/ \E r \in Runs, m \in Members : EvaluateMember(r, m)
    \/ \E r \in Runs, m \in Members : SiblingsAnswer(r, m)
    \/ \E r \in Runs, m \in Members : ProfileAnswer(r, m)
    \/ \E r \in Runs, m \in Members : MutationAnswer(r, m)
    \/ \E r \in Runs : RootScheduledJob(r)
    \/ \E r \in Runs : root_sync_roles(r)
    \/ \E r \in Runs : RootGatherReturn(r)
    \/ \E r \in Runs : RootGatherRaise(r)
    \/ \E r \in Runs, m \in Members : RootProcessMember(r, m)
    \/ \E r \in Runs, m \in Members : RootAcquireApi(r, m)
    \/ \E r \in Runs, m \in Members : RootFetchAnswer(r, m)
    \/ \E r \in Runs, m \in Members : RootAcquireRole(r, m)
    \/ \E r \in Runs, m \in Members : RootMutationAnswer(r, m)
    \/ Tick

Spec == Init /\ [][Next]_vars

\* ====================================================================
\* The claims
\* ====================================================================

\* the frame has asked the lookup service (a cache hit is no request)
Requested(t) == t.lookup \in {"pending", "ok", "fail", "raise"}

\* the frames that exist
Frames == Runs \X Members

\* session.get calls awaiting their answer or sleeping before the retry
LookupsInFlight ==
    Cardinality({f \in Frames : task[f[1]][f[2]].pc \in {"sib", "single", "get"}})

\* add_roles / remove_roles calls awaiting their answer
MutationsInFlight ==
    Cardinality({f \in Frames : task[f[1]][f[2]].pc \in {"add", "remove"}})

\* C1: a member without the verification role is never looked up; its
\* evaluation decides to remove the target role if the member holds it and
\* ends as skipped, without any role call, otherwise
C1_VerificationGate ==
    \A r \in Runs, m \in Members :
        ~verified[m] =>
            /\ ~Requested(task[r][m])
            /\ task[r][m].pc = "done" =>
                  IF task[r][m].has_role
                  THEN task[r][m].mutation = "remove"
                  ELSE task[r][m].mutation = "none"
                         /\ task[r][m].result = "skipped"

\* C2: a verified member who joined before the cutoff is never looked up;
\* its evaluation decides to add the target role if the member lacks it and
\* ends as skipped, without any role call, otherwise
C2_TenureShortCircuit ==
    \A r \in Runs, m \in Members :
        verified[m] /\ joined_at[m] < JOIN_THRESHOLD =>
            /\ ~Requested(task[r][m])
            /\ task[r][m].pc = "done" =>
                  IF task[r][m].has_role
                  THEN task[r][m].mutation = "none"
                         /\ task[r][m].result = "skipped"
                  ELSE task[r][m].mutation = "add"

\* C3: when the lookup of a verified member without tenure fails, the pass
\* issues no add and no remove call for the member and ends as skipped
C3_FailureIsNotLowLevel ==
    \A r \in Runs, m \in Members :
        verified[m] /\ joined_at[m] >= JOIN_THRESHOLD
                    /\ task[r][m].lookup = "fail" =>
            /\ task[r][m].mutation = "none"
            /\ task[r][m].pc = "done" => task[r][m].result = "skipped"

\* check_all_members has returned or raised
Over(r) == run[r].phase \in {"done", "raised"}

\* C4: no member is evaluated more than twice in a run or deferred more than
\* once; a member whose lookup did not fail in the main pass is evaluated at
\* most once; once the run is over every member deferred in the main pass has
\* been evaluated a second time; a failure in the deferred pass ends skipped
C4_DeferredOnceAndFinal ==
    \A r \in Runs, m \in Members :
        /\ task[r][m].evals <= 2
        /\ task[r][m].deferrals <= 1
        /\ task[r][m].deferrals = 0 => task[r][m].evals <= 1
        /\ Over(r) /\ task[r][m].deferrals = 1 => task[r][m].evals = 2
        /\ task[r][m].is_retry /\ task[r][m].pc = "done"
              /\ task[r][m].lookup = "fail" => task[r][m].result = "skipped"

\* C5: no run of check_all_members is ended by what happened to one member:
\* a member's coroutine never raises into gather
C5_FailureIsolation ==
    \A r \in Runs : run[r].phase # "raised"

\* C6: at most one run of check_all_members is in progress at any time
C6_SingleRun ==
    Cardinality({r \in Runs : Running(r)}) <= 1

\* C7: in every state the lookups in flight are at most the lookup limit
\* and the role calls in flight at most the number of role slots; in
\* cogs/role_scheduler.py, where one semaphore admits the whole evaluation,
\* lookups and role calls together never exceed its slots
C7_BoundedConcurrency ==
    /\ MutationsInFlight <= RoleSlotsBound
    /\ extension = "root" => LookupsInFlight <= ApiSlotsBound
    /\ extension = "cogs" =>
          LookupsInFlight + MutationsInFlight <= RoleSlotsBound

\* C7 happens: every lookup slot is taken while another lookup waits for one
C7_PoolFull ==
    /\ LookupsInFlight = ApiSlotsBound
    /\ \E f \in Frames : task[f[1]][f[2]].pc = "api_wait"

\* C8: the role semaphore's slots are held by the frames that are in a role
\* call and by no other, the lookup semaphore's by the frames in a lookup
C8_PoolsIndependent ==
    /\ RoleSlotsBound - role_semaphore = MutationsInFlight
    /\ extension = "root" => ApiSlotsBound - api_semaphore = LookupsInFlight

\* the request limit of the variant
AttemptLimit == IF extension = "cogs" THEN max_attempts ELSE max_retries

\* C9: a lookup whose every request failed with a transport error or a 429
\* has issued exactly the limit of requests, has returned failure, and the
\* member has been put in failed_members once
C9_RetryBound ==
    \A r \in Runs, m \in Members :
        LET t == task[r][m]
        IN  t.pc = "done" /\ t.clean /\ t.reqs > 0 =>
                /\ t.reqs = AttemptLimit
                /\ t.lookup = "fail"
                /\ t.deferrals = 1

\* C10: a lookup for a member that starts while another frame holds the
\* level a successful lookup of the same member obtained less than cache_ttl
\* ago issues no request; one that starts cache_ttl or more after that lookup
\* is not answered from the cache
C10_CacheCorrectness ==
    [][\A r \in Runs, q \in Runs, m \in Members :
          (/\ q # r
           /\ task[q][m].pc = "done" /\ task[q][m].lookup = "ok"
           /\ task[r][m].pc = "new" /\ task'[r][m].pc # "new")
          => IF now - task[q][m].now < cache_ttl
             THEN ~Requested(task'[r][m])
             ELSE task'[r][m].lookup # "cached"]_vars

\* C11: whenever a lookup writes a cache entry, the entry's timestamp is the
\* time of the write
C11_WriteThroughTimestamp ==
    [][\A m \in Members :
          cache'[m] # cache[m] => cache'[m].has /\ cache'[m].ts = now]_vars

\* the frame is in its level lookup
InLookup(t) == t.pc \in {"sib", "single", "get"}

\* C12: the evaluation that decides after its lookup decides on the role
\* membership the member has at that moment; no add_roles call is issued for
\* a member that holds the target role and no remove_roles call for a member
\* that lacks it
C12_MutationIdempotence ==
    [][\A r \in Runs, m \in Members :
          /\ InLookup(task[r][m]) /\ ~InLookup(task'[r][m])
                /\ task'[r][m].lookup \in {"ok", "fail"}
                => task'[r][m].has_role = roles[m]
          /\ task[r][m].pc # "add" /\ task'[r][m].pc = "add" => ~roles[m]
          /\ task[r][m].pc # "remove" /\ task'[r][m].pc = "remove"
                => roles[m]]_vars

\* ------------------------------------------------- two runs of the job
\* services whose level data does not change and that reject no role call;
\* the level service answers every GET with a 200, or may also answer 429
SteadyServices ==
    [lookup : {{"ok"}, {"ok", "429"}}, mutation : {{"ok"}},
     sib : [Range(members) -> {{o} : o \in SiblingsOutcomes}],
     single : [Range(members) -> {{o} : o \in ProfileOutcomes}]]

\* src/cogs/role_scheduler.py with MaxRuns firings of the trigger to come
InitTwice ==
    /\ extension = "cogs"
    /\ members = [i \in 1..OverlapMembers |-> i]
    /\ verified \in [Range(members) -> BOOLEAN]
    /\ joined_at \in [Range(members) -> JoinDates]
    /\ roles \in [Range(members) -> BOOLEAN]
    /\ invocations = [sched |-> MaxRuns, cmd |-> 0]
    /\ run = [r \in Runs |-> NoRun]
    /\ task = [r \in Runs |-> [m \in Range(members) |-> NoTask]]
    /\ role_semaphore = RoleSlotsBound
    /\ api_semaphore = ApiSlotsBound
    /\ cache = [m \in Range(members) |-> NoEntry]
    /\ now = 0
    /\ service \in SteadyServices

\* the scheduler alone starts the runs
NextScheduled ==
    \/ \E r \in Runs : ScheduledJob(r)
    \/ JobSkipped
    \/ \E r \in Runs : GatherReturn(r)
    \/ \E r \in Runs : GatherRaise(r)
    \/ \E r \in Runs, m \in Members : EvaluateMember(r, m)
    \/ \E r \in Runs, m \in Members : SiblingsAnswer(r, m)
    \/ \E r \in Runs, m \in Members : ProfileAnswer(r, m)
    \/ \E r \in Runs, m \in Members : MutationAnswer(r, m)

SpecTwice == InitTwice /\ [][NextScheduled]_vars

\* the second run has issued no role call and counted no change, and every
\* evaluation of it that has ended has ended skipped
SecondRunQuiet ==
    /\ run[2].added = 0 /\ run[2].removed = 0
    /\ \A m \in Members :
          /\ task[2][m].mutation = "none"
          /\ task[2][m].pc = "done" => task[2][m].result = "skipped"

C14_PermissionDenied ==
    \A r \in Runs, m \in Members :
        task[r][m].pc = "done" /\ task[r][m].answer = "Forbidden" =>
            task[r][m].result = "failed"

\* C15: an evaluation whose role call was rejected with a 429 does not end
\* by raising: the call is retried and the evaluation ends added, removed or
\* as a recorded failure
C15_MutationRateLimit ==
    \A r \in Runs, m \in Members :
        task[r][m].pc = "done" /\ task[r][m].answer = "429" =>
            task[r][m].result \in {"added", "removed", "failed"}

\* C16: a run that could not resolve the guild, the target role or the
\* verification role has ended as a handled abort, not by an unhandled
\* error, and has evaluated no member
C16_ConfigurationAbort ==
    \A r \in Runs :
        /\ run[r].phase # "crashed"
        /\ run[r].phase = "config_abort" =>
              \A m \in Members :
                  task[r][m].pc = "none" /\ task[r][m].evals = 0

\* the chunk of the member list the member is in
ChunkOf(m) ==
    ((CHOOSE i \in 1..Len(members) : members[i] = m) - 1) \div chunk_size

\* the member's evaluation in the main pass has ended
MainPassOver(t) ==
    t.evals > 0 /\ (t.pc \in {"done", "none"} \/ t.is_retry)

\* C17: within a run, a member of a later chunk has a coroutine only once
\* the main-pass evaluation of every member of every earlier chunk has
\* ended, the chunk in progress is the one the run has counted up to, and a
\* member has a deferred-pass coroutine only once the main-pass evaluation
\* of every member has ended
C17_PhaseOrdering ==
    \A r \in Runs, m1 \in Members, m2 \in Members :
        LET t1 == task[r][m1]
            t2 == task[r][m2]
        IN  /\ t2.pc # "none" /\ ~t2.is_retry /\ Running(r)
                  => ChunkOf(m2) = run[r].chunk
            /\ (t2.pc # "none" \/ t2.evals > 0) /\ ChunkOf(m1) < ChunkOf(m2)
                  => MainPassOver(t1)
            /\ t2.is_retry => MainPassOver(t1)

\* C17 happens: a member of the second chunk is being evaluated
C17_SecondChunk ==
    \E r \in Runs, m \in Members :
        ChunkOf(m) = 1 /\ task[r][m].pc \notin {"none", "new", "done"}

\* ------------------------------------------- one kind of answer at a time
\* level services that answer every GET from one set of answers and hold a
\* level for every member
LookupServices ==
    {[AnyService EXCEPT !.lookup = a,
                        !.sib = [m \in Range(members) |-> {Level(v)}],
                        !.single = [m \in Range(members) |-> {Level(v)}]] :
        a \in {{"ok"}, {"204"}, {"other"}, {"204", "other"}, {"ok", "204"},
               {"429", "exc"}, Answers},
        v \in {MIN_ITEM_LEVEL * 100, (MIN_ITEM_LEVEL - 1) * 100}}

\* either file, a guild of OverlapMembers members and MaxRuns invocations
InitFetch ==
    /\ extension \in {"cogs", "root"}
    /\ members = [i \in 1..OverlapMembers |-> i]
    /\ verified \in [Range(members) -> BOOLEAN]
    /\ joined_at \in [Range(members) -> JoinDates]
    /\ roles \in [Range(members) -> BOOLEAN]
    /\ invocations \in {[sched |-> a, cmd |-> MaxRuns - a] : a \in 0..MaxRuns}
    /\ run = [r \in Runs |-> NoRun]
    /\ task = [r \in Runs |-> [m \in Range(members) |-> NoTask]]
    /\ role_semaphore = RoleSlotsBound
    /\ api_semaphore = ApiSlotsBound
    /\ cache = [m \in Range(members) |-> NoEntry]
    /\ now = 0
    /\ service \in LookupServices

SpecFetch == InitFetch /\ [][Next]_vars

\* the requests one lookup issues when every endpoint is asked once
OneRound == IF extension = "cogs" THEN 2 ELSE 1

\* the runs whose GETs are answered by the service: the session of the root
\* file is never closed, the one of a run of the cogs file is closed when
\* the run is over
Served == {r \in Runs : extension = "cogs" => ~SessionClosed(r)}

\* no endpoint has been asked a second time by any lookup
NoRetry ==
    \A r \in Served, m \in Members :
        task[r][m].attempt <= 1 /\ task[r][m].reqs <= OneRound

\* no lookup has failed
NoFailure == \A r \in Served, m \in Members : task[r][m].lookup # "fail"

\* no lookup has obtained a level
NoData == \A r \in Served, m \in Members : task[r][m].lookup # "ok"

\* C18 as stated: answers that are neither 2xx nor 429 are not retried and
\* yield no data, and a lookup answered with 2xx only does not fail
C18_PermanentFailureAsStated ==
    /\ service.lookup \subseteq {"other"} => NoRetry /\ NoData
    /\ service.lookup \subseteq {"ok", "204"} => NoFailure

\* C18: answers that are neither 200 nor 429 (a 204 among them) are not
\* retried and yield no data, and a lookup answered with 200 only is not
\* retried and does not fail
C18_PermanentFailure ==
    /\ service.lookup \subseteq {"204", "other"} => NoRetry /\ NoData
    /\ service.lookup \subseteq {"ok"} => NoRetry /\ NoFailure

\* C18 happens: a lookup answered with a status that is neither 200 nor 429
\* has ended in failure
C18_Stopped ==
    /\ service.lookup = {"other"}
    /\ \E r \in Served, m \in Members :
          task[r][m].pc = "done" /\ task[r][m].lookup = "fail"

\* the lookup of the frame has returned a level
Success(t) == t.lookup \in {"ok", "cached"} /\ t.item_level >= 0

\* what the level rule prescribes for a level and a held role
LevelRule(level, held) ==
    IF level >= MIN_ITEM_LEVEL * 100 /\ ~held THEN "added"
    ELSE IF level < MIN_ITEM_LEVEL * 100 /\ held THEN "removed"
    ELSE "skipped"

\* C19: for a verified member without tenure whose lookup returns a level,
\* the member is eligible exactly when the level is at least MIN_ITEM_LEVEL;
\* the coroutine decides by the role the member holds when the lookup
\* returns, and its result is "added" for an eligible member lacking the
\* role, "removed" for an ineligible member holding it and "skipped"
\* otherwise, whatever else happens
C19_LevelRule ==
    [][\A r \in Runs, m \in Members :
          LET t == task[r][m]
              nt == task'[r][m]
              rule == LevelRule(nt.item_level, roles[m])
          IN  verified[m] /\ joined_at[m] >= JOIN_THRESHOLD =>
                /\ ~Success(t) /\ Success(nt) =>
                     /\ nt.should_have_role
                          = (nt.item_level >= MIN_ITEM_LEVEL * 100)
                     /\ rule = "added" <=> nt.mutation = "add"
                     /\ rule = "removed" <=> nt.mutation = "remove"
                     /\ rule = "skipped" <=>
                          nt.pc = "done" /\ nt.result = "skipped"
                /\ Success(nt) /\ t.pc # "done" /\ nt.pc = "done" =>
                     nt.result = CASE nt.mutation = "add" -> "added"
                                   [] nt.mutation = "remove" -> "removed"
                                   [] OTHER -> "skipped"]_vars

\* the level field of a record: "max level" when the record has it,
\* "average level" otherwise
LevelField(rec) ==
    IF rec.ItemMaxLevel.has THEN rec.ItemMaxLevel ELSE rec.ItemAvgLevel

\* the bodies of the multi-character endpoint that are non-empty lists of
\* records with a level each
LevelLists ==
    {d \in SiblingsPayloads :
        /\ d.kind = "list" /\ Len(d.recs) > 0
        /\ \A i \in 1..Len(d.recs) : Truthy(LevelField(d.recs[i]))}

\* the largest element of a non-empty set of numbers
Maximum(S) == CHOOSE x \in S : \A y \in S : y <= x

\* C20: for a non-empty list of records the multi-character lookup returns
\* the maximum of the records' levels, a record's level being its "max
\* level" field when present and its "average level" field otherwise; for
\* an empty or erroring payload it hands over to the single-character
\* lookup, and the frame's next request goes to that endpoint
C20_MultiCharacterLookup ==
    /\ \A d \in LevelLists :
          fetch_max_siblings_item_level(d)
            = Level(Maximum({ParseLevel(LevelField(d.recs[i]).val) :
                                i \in 1..Len(d.recs)}))
    /\ \A d \in SiblingsPayloads :
          d.kind # "list" \/ Len(d.recs) = 0
            => fetch_max_siblings_item_level(d) = Fallback
    /\ \A r \in Runs, m \in Members :
          task[r][m].pc = "single" => task[r][m].lookup = "pending"

\* the frame is inside "async with self.role_semaphore": the whole of
\* evaluate_member past its entry, the role call alone in _process_member
HoldsRoleSlot(t) ==
    IF extension = "cogs" THEN t.pc \in {"sib", "single", "add", "remove"}
    ELSE t.pc \in {"add", "remove"}

\* the frame is inside "async with self.api_semaphore"
HoldsApiSlot(t) == extension = "root" /\ t.pc = "get"

\* the slots of the role pool that frames hold
RoleSlotsHeld ==
    Cardinality({f \in Frames : HoldsRoleSlot(task[f[1]][f[2]])})

\* the slots of the lookup pool that frames hold
ApiSlotsHeld ==
    Cardinality({f \in Frames : HoldsApiSlot(task[f[1]][f[2]])})

\* check_all_members has been left: by a return, by the return of the
\* configuration check, or by an exception
Ended(r) == run[r].phase \in {"done", "raised", "config_abort", "crashed"}

\* C21: a slot of either pool is taken exactly while a frame is inside the
\* gated section, so every way out of the section gives it back; and once a
\* run of check_all_members has ended, normally or by an error, none of its
\* frames holds a slot, so that with no other run in progress every slot of
\* both pools is free
C21_ScopedRelease ==
    /\ RoleSlotsBound - role_semaphore = RoleSlotsHeld
    /\ ApiSlotsBound - api_semaphore = ApiSlotsHeld
    /\ \A r \in Runs : Ended(r) =>
          \A m \in Members :
             ~HoldsRoleSlot(task[r][m]) /\ ~HoldsApiSlot(task[r][m])
    /\ (\A r \in Runs : ~Running(r)) /\ (\E r \in Runs : Ended(r)) =>
          role_semaphore = RoleSlotsBound /\ api_semaphore = ApiSlotsBound

\* the members the report of a run of cogs/role_scheduler.py accounts for
\* (line 125): its three counts together
Reported(r) == run[r].added + run[r].removed + run[r].skipped

\* C22: when a run of check_all_members has come to its report, the counts
\* of the report add up to the number of members: each member is counted
\* once, a member deferred in the main pass included
C22_ReportAccounting ==
    \A r \in Runs :
        extension = "cogs" /\ run[r].phase = "done" =>
            Reported(r) = Len(members)
====
